---------------------------- MODULE Spec2Model ----------------------------
(***************************************************************************)
(* Model of layup_optimizer.py: the classical-laminate-theory objective    *)
(* (compute_Qbar, compute_D_matrix, laminate_objective, penalty) and the   *)
(* variable-length simulated annealing search (simulated_annealing).       *)
(*                                                                         *)
(* Arithmetic.  The program computes in binary64 floats; the model         *)
(* computes the same quantities exactly, as integers in fixed units:       *)
(*   stiffness   Q11, Q22, Q12, Q66  in GPa / denom_num                    *)
(*   Qbar11      in GPa / denom_num                                        *)
(*   D11         in N.m / DeflNum           (t = 1 mm, so GPa.t^3 = 1 N.m) *)
(*   weight      in units of ply_weight = 1/200 kg                         *)
(*   penalty     in units of 1e6                                           *)
(* An objective value is kept as the record of its three summands and two  *)
(* values are compared exactly by ObjLess.  Two sequences whose exact      *)
(* objectives are equal are taken to have equal float objectives.          *)
(***************************************************************************)
EXTENDS Integers, Sequences, FiniteSets

\* ------------------------------------------------------------------------
\* Bounds of the model
\* ------------------------------------------------------------------------
\* largest n_iterations a modelled run is given
MaxIter == 3
\* max_half of the general configuration (the program's default is 20)
MaxHalf == 2
\* penalty is applied directly to full sequences of 2, 4, .. 2*MaxEvalHalf plies
MaxEvalHalf == 2

\* ------------------------------------------------------------------------
\* Material and ply definitions (module constants)
\* ------------------------------------------------------------------------
\* E1 = 89e9 Pa, in GPa
E1 == 89
\* E2 = 8e9 Pa, in GPa
E2 == 8
\* G12 = 4.5e9 Pa, in tenths of a GPa
G12x10 == 45
\* nu12 = 0.3, in tenths
nu12x10 == 3
\* ply_weight = 0.005 kg: 1 / PlyWeightInv
PlyWeightInv == 200

\* denom = 1 - nu12 * nu21 with nu21 = nu12 * E2 / E1, as the fraction
\* denom_num / denom_den
denom_num == 100 * E1 - nu12x10 * nu12x10 * E2
denom_den == 100 * E1

\* Reduced stiffnesses, in GPa / denom_num
Q11 == E1 * denom_den
Q22 == E2 * denom_den
Q12 == (nu12x10 * E2 * denom_den) \div 10
Q66 == (G12x10 * denom_num) \div 10

\* The allowed ply orientations of the program
AllAngles == {0, 45, -45, 90}

\* ------------------------------------------------------------------------
\* Sequences
\* ------------------------------------------------------------------------
\* s[::-1]
Reverse(s) == [i \in 1..Len(s) |-> s[Len(s) + 1 - i]]

\* np.sum(np.array(s) == a)
Count(s, a) == Cardinality({i \in 1..Len(s) : s[i] = a})

\* list.pop(idx) on a copy (idx counted from 1)
RemoveAt(s, idx) == [i \in 1..(Len(s) - 1) |-> IF i < idx THEN s[i] ELSE s[i + 1]]

\* list.insert(idx, a) on a copy: a ends up at position idx (counted from 1)
InsertAt(s, idx, a) ==
    [i \in 1..(Len(s) + 1) |-> IF i < idx THEN s[i] ELSE IF i = idx THEN a ELSE s[i - 1]]

\* all sequences over S with a length in lens
SeqsOfLen(S, lens) == UNION {[1..n -> S] : n \in lens}

Cube(x) == x * x * x

\* ------------------------------------------------------------------------
\* Classical laminate theory
\* ------------------------------------------------------------------------
\* 4*cos^4, 4*sin^4 and 4*cos^2*sin^2 of the angle
m4x4(angle) == IF angle = 0 THEN 4 ELSE IF angle = 90 THEN 0 ELSE 1
n4x4(angle) == IF angle = 0 THEN 0 ELSE IF angle = 90 THEN 4 ELSE 1
m2n2x4(angle) == IF angle \in {0, 90} THEN 0 ELSE 1

\* Qbar11 of compute_Qbar, in GPa / denom_num (the sum is a multiple of 4)
compute_Qbar11(angle) ==
    (Q11 * m4x4(angle) + 2 * (Q12 + 2 * Q66) * m2n2x4(angle) + Q22 * n4x4(angle)) \div 4

\* D[0,0] of compute_D_matrix: z[i] = (2i - N) * t/2 for i = 0..N, so
\* (z[i+1]^3 - z[i]^3) / 3 = ((2i + 2 - N)^3 - (2i - N)^3) * t^3 / 24
RECURSIVE D11Sum(_, _)
D11Sum(full_seq, i) ==
    IF i >= Len(full_seq) THEN 0
    ELSE compute_Qbar11(full_seq[i + 1])
            * (Cube(2 * i + 2 - Len(full_seq)) - Cube(2 * i - Len(full_seq)))
         + D11Sum(full_seq, i + 1)

\* 1 / D11 = DeflNum / compute_D11
DeflNum == 24 * denom_num

compute_D11(full_seq) == D11Sum(full_seq, 0)

\* laminate_deflection_metric: 1e12 when D11 <= 0 (big), else 1.0 / D11
laminate_deflection_metric(full_seq) ==
    LET D11 == compute_D11(full_seq)
    IN  IF D11 <= 0 THEN [big |-> TRUE, D11 |-> 0] ELSE [big |-> FALSE, D11 |-> D11]

\* laminate_weight, in plies (units of ply_weight)
laminate_weight(full_seq) == Len(full_seq)

\* ------------------------------------------------------------------------
\* Constraint penalty
\* ------------------------------------------------------------------------
\* required = int(N * minPercent), minPercent in percent
Required(N, minPercent) == (N * minPercent) \div 100

\* np.allclose(full_seq[:half], full_seq[half:][::-1]) for an even length
IsSymmetric(full_seq) ==
    LET half == Len(full_seq) \div 2
    IN  SubSeq(full_seq, 1, half) = Reverse(SubSeq(full_seq, half + 1, Len(full_seq)))

\* the symmetry term of penalty, in units of 1e6
SymmetryTerm(full_seq) == IF IsSymmetric(full_seq) THEN 0 ELSE 1

\* the balance term of penalty, in units of 1e6
BalanceTerm(full_seq) ==
    LET d == Count(full_seq, 45) - Count(full_seq, -45)
    IN  IF d < 0 THEN -d ELSE d

Shortfall(count, required) == IF count < required THEN required - count ELSE 0

\* the three minimum-percentage terms of penalty, in units of 1e6
CoverageTerm(full_seq, minPercent) ==
    LET required == Required(Len(full_seq), minPercent)
    IN  Shortfall(Count(full_seq, 0), required)
        + Shortfall(Count(full_seq, 90), required)
        + Shortfall(Count(full_seq, 45) + Count(full_seq, -45), required)

\* faulty variant of penalty: the balance term is left out
penalty_nobalance(full_seq, minPercent) ==
    SymmetryTerm(full_seq) + CoverageTerm(full_seq, minPercent)

\* penalty(full_seq), in units of 1e6
penalty(full_seq, minPercent) ==
    SymmetryTerm(full_seq) + BalanceTerm(full_seq) + CoverageTerm(full_seq, minPercent)

\* ------------------------------------------------------------------------
\* Objective
\* ------------------------------------------------------------------------
\* faulty variant of laminate_objective: the penalty is not added
laminate_objective_nopenalty(full_seq, minPercent) ==
    [defl   |-> laminate_deflection_metric(full_seq),
     weight |-> laminate_weight(full_seq),
     pen    |-> 0]

\* laminate_objective: deflection metric + weight + penalty, kept as summands
laminate_objective(full_seq, minPercent) ==
    [defl   |-> laminate_deflection_metric(full_seq),
     weight |-> laminate_weight(full_seq),
     pen    |-> penalty(full_seq, minPercent)]

\* faulty variant of Mirror: the second half is not reversed
Mirror_norev(half_seq) == half_seq \o half_seq

\* full_seq = half_seq + half_seq[::-1]
Mirror(half_seq) == half_seq \o Reverse(half_seq)

objective(half_seq, minPercent) == laminate_objective(Mirror(half_seq), minPercent)

\* a/b < c/d for a, c >= 0 and b, d > 0, by continued-fraction expansion
RECURSIVE FracLess(_, _, _, _)
FracLess(a, b, c, d) ==
    IF a \div b # c \div d THEN a \div b < c \div d
    ELSE IF c % d = 0 THEN FALSE
    ELSE IF a % b = 0 THEN TRUE
    ELSE FracLess(d, c % d, b, a % b)

\* PlyWeightInv * (1/D11 + weight) = IntPart + FracNum / D11
IntPart(o) == o.weight + (PlyWeightInv * DeflNum) \div o.defl.D11
FracNum(o) == (PlyWeightInv * DeflNum) % o.defl.D11

\* 1/D11 + weight of a is below that of b (both with D11 > 0)
RestLess(a, b) ==
    \/ IntPart(a) < IntPart(b)
    \/ /\ IntPart(a) = IntPart(b)
       /\ FracLess(FracNum(a), a.defl.D11, FracNum(b), b.defl.D11)

\* a < b on objective values.  1/D11 + weight is below 1e6 whenever D11 > 0
\* (D11 is a positive integer in units of 1/DeflNum), and every penalty is
\* far below the 1e12 of a non-physical laminate.
ObjLess(a, b) ==
    IF a.defl.big # b.defl.big THEN b.defl.big
    ELSE IF a.pen # b.pen THEN a.pen < b.pen
    ELSE IF a.defl.big THEN a.weight < b.weight
    ELSE RestLess(a, b)


\* ------------------------------------------------------------------------
\* Configurations: the module constants a run is given
\* ------------------------------------------------------------------------
\* cooling_rate = 0.999 (the default), in thousandths
DefaultCoolingRate == 999

Config(angles, pct, minp, maxp, rate) ==
    [allowed_angles |-> angles, minPercent |-> pct,
     min_full_plies |-> minp, max_full_plies |-> maxp, cooling_rate |-> rate]

\* the program's angles with a variable length (the program has 4..40 plies
\* and minPercent = 0.1; 25 percent makes the coverage terms bite at 4 plies)
GeneralConfig == Config(AllAngles, 25, 2, 2 * MaxHalf, DefaultCoolingRate)
\* allowedAngles = {0}, minPercent = 0, minFullPlies = maxFullPlies = 4
SingleAngleConfig == Config({0}, 0, 4, 4, DefaultCoolingRate)
\* minPercent = 0.25, minFullPlies = maxFullPlies = 8
EightPlyConfig == Config(AllAngles, 25, 8, 8, DefaultCoolingRate)
\* cooling_rate = 1.0, outside the open interval (0,1)
NoCoolingConfig == Config({0, 90}, 0, 2, 4, 1000)
\* min_full_plies > max_full_plies
EmptyRangeConfig == Config({0, 90}, 0, 6, 4, DefaultCoolingRate)
\* allowed_angles empty
NoAnglesConfig == Config({}, 0, 4, 4, DefaultCoolingRate)

Configs == {GeneralConfig, SingleAngleConfig, EightPlyConfig,
            NoCoolingConfig, EmptyRangeConfig, NoAnglesConfig}

min_half_of(c) == c.min_full_plies \div 2
max_half_of(c) == c.max_full_plies \div 2

\* ------------------------------------------------------------------------
\* State
\* ------------------------------------------------------------------------
VARIABLES
    cfg,             \* the module constants of this run
    n_iterations,    \* argument of simulated_annealing
    pc,              \* "start", "loop", "done" (returned), "error" (exception)
    it,              \* iterations completed
    T,               \* coolings applied: the temperature is
                     \* initial_temp * cooling_rate^T with initial_temp = 1.0
    current_half, current_obj,
    best_half, best_obj,
    candidate_half, candidate_obj,
    move,            \* the move drawn in the last iteration
    full_seq, pen,   \* argument and result of the last call of penalty
    result           \* the returned (best_full_seq, best_obj)

vars == <<cfg, n_iterations, pc, it, T, current_half, current_obj, best_half,
          best_obj, candidate_half, candidate_obj, move, full_seq, pen, result>>

min_half == min_half_of(cfg)
max_half == max_half_of(cfg)
allowed_angles == cfg.allowed_angles

\* value of a variable that has not been assigned yet
NoObj == [defl |-> [big |-> FALSE, D11 |-> 0], weight |-> 0, pen |-> 0]
NoResult == <<>>

Init ==
    /\ cfg \in Configs
    /\ n_iterations \in {0, MaxIter}
    /\ pc = "start"
    /\ it = 0
    /\ T = 0
    /\ current_half = <<>> /\ current_obj = NoObj
    /\ best_half = <<>> /\ best_obj = NoObj
    /\ candidate_half = <<>> /\ candidate_obj = NoObj
    /\ move = "none"
    /\ full_seq = <<>> /\ pen = 0
    /\ result = NoResult

\* ------------------------------------------------------------------------
\* simulated_annealing: initialisation
\* ------------------------------------------------------------------------
\* random.randint(min_half, max_half) raises ValueError on an empty range;
\* random.choice(allowed_angles) raises IndexError on an empty list
InitializeFail ==
    /\ pc = "start"
    /\ \/ min_half > max_half
       \/ \E n \in min_half..max_half : n > 0 /\ allowed_angles = {}
    /\ pc' = "error"
    /\ UNCHANGED <<cfg, n_iterations, it, T, current_half, current_obj, best_half,
                   best_obj, candidate_half, candidate_obj, move, full_seq, pen,
                   result>>

Initialize ==
    /\ pc = "start"
    /\ \E current_length \in min_half..max_half :
         \E h \in [1..current_length -> allowed_angles] :
            \E obj \in {objective(h, cfg.minPercent)} :
                /\ current_half' = h
                /\ current_obj' = obj
                /\ best_half' = h
                /\ best_obj' = obj
                /\ full_seq' = Mirror(h)
                /\ pen' = obj.pen
    /\ T' = 0
    /\ pc' = "loop"
    /\ UNCHANGED <<cfg, n_iterations, it, candidate_half, candidate_obj, move, result>>

\* ------------------------------------------------------------------------
\* simulated_annealing: one iteration
\* ------------------------------------------------------------------------
\* faulty variant of moves: delete is offered at min_half (>= for >)
moves_deleteatmin(half) ==
    {"change"} \cup (IF Len(half) < max_half THEN {"insert"} ELSE {})
               \cup (IF Len(half) >= min_half THEN {"delete"} ELSE {})

\* the allowed move types for the current half length
moves(half) ==
    {"change"} \cup (IF Len(half) < max_half THEN {"insert"} ELSE {})
               \cup (IF Len(half) > min_half THEN {"delete"} ELSE {})

\* delta = candidate_obj - current_obj is so large that exp(-delta / T)
\* underflows to 0.0: a penalty (or the 1e12 metric) was added, delta is
\* above 999999, and 0 < T <= initial_temp = 1.0 (exp(-x) is 0.0 from x = 746)
DeltaHuge(cand, cur) ==
    \/ cand.defl.big /\ ~cur.defl.big
    \/ cand.defl.big = cur.defl.big /\ cand.pen > cur.pen

\* the test of line 204 can come out true:
\* delta < 0, or random.random() < exp(-delta / T) for some draw in [0, 1)
MayAccept(cand, cur) == ObjLess(cand, cur) \/ ~DeltaHuge(cand, cur)

\* faulty variant of MayReject: the delta < 0 shortcut is missing
MayReject_always(cand, cur) == TRUE

\* the test of line 204 can come out false: delta > 0 (with delta = 0 the
\* exponential is 1.0 and every draw of random.random() is below it)
MayReject(cand, cur) == ObjLess(cur, cand)

\* faulty variants of ImprovesBest: no test, <= for <, penalties compared only
ImprovesBest_always(cur, best) == TRUE
ImprovesBest_orequal(cur, best) == ~ObjLess(best, cur)
ImprovesBest_penonly(cur, best) == cur.pen < best.pen

\* current_obj < best_obj
ImprovesBest(cur, best) == ObjLess(cur, best)

\* lines 200-212 for the candidate cand built by move mv (the progress
\* print of lines 214-216 changes no state and is left out)
Metropolis(mv, cand) ==
    \E cobj \in {objective(cand, cfg.minPercent)} :
        /\ move' = mv
        /\ candidate_half' = cand
        /\ candidate_obj' = cobj
        /\ full_seq' = Mirror(cand)
        /\ pen' = cobj.pen
        /\ \/ /\ MayAccept(cobj, current_obj)
              /\ current_half' = cand
              /\ current_obj' = cobj
              /\ IF ImprovesBest(cobj, best_obj)
                    THEN best_half' = cand /\ best_obj' = cobj
                    ELSE UNCHANGED <<best_half, best_obj>>
           \/ /\ MayReject(cobj, current_obj)
              /\ UNCHANGED <<current_half, current_obj, best_half, best_obj>>
        /\ T' = T + 1
        /\ it' = it + 1
        /\ UNCHANGED <<cfg, n_iterations, pc, result>>

InLoop == pc = "loop" /\ it < n_iterations

ChangeMove ==
    /\ InLoop
    /\ "change" \in moves(current_half)
    /\ \E idx \in 1..Len(current_half) :
         \E a \in allowed_angles \ {current_half[idx]} :
            Metropolis("change", [current_half EXCEPT ![idx] = a])

\* random.randint(0, -1) raises ValueError for an empty half-sequence;
\* random.choice([]) raises IndexError when no other angle is allowed
ChangeFail ==
    /\ InLoop
    /\ "change" \in moves(current_half)
    /\ \/ Len(current_half) = 0
       \/ \E idx \in 1..Len(current_half) : allowed_angles \ {current_half[idx]} = {}
    /\ move' = "change"
    /\ candidate_half' = current_half
    /\ pc' = "error"
    /\ UNCHANGED <<cfg, n_iterations, it, T, current_half, current_obj, best_half,
                   best_obj, candidate_obj, full_seq, pen, result>>

InsertMove ==
    /\ InLoop
    /\ "insert" \in moves(current_half)
    /\ \E idx \in 1..(Len(current_half) + 1) :
         \E a \in allowed_angles :
            Metropolis("insert", InsertAt(current_half, idx, a))

DeleteMove ==
    /\ InLoop
    /\ "delete" \in moves(current_half)
    /\ \E idx \in 1..Len(current_half) :
         Metropolis("delete", RemoveAt(current_half, idx))

\* lines 218-219
Return ==
    /\ pc = "loop"
    /\ it = n_iterations
    /\ result' = <<Mirror(best_half), best_obj>>
    /\ pc' = "done"
    /\ UNCHANGED <<cfg, n_iterations, it, T, current_half, current_obj, best_half,
                   best_obj, candidate_half, candidate_obj, move, full_seq, pen>>

Next ==
    \/ InitializeFail
    \/ Initialize
    \/ ChangeMove
    \/ ChangeFail
    \/ InsertMove
    \/ DeleteMove
    \/ Return

Spec == Init /\ [][Next]_vars

\* ------------------------------------------------------------------------
\* penalty called directly on a full sequence of even length
\* ------------------------------------------------------------------------
\* minPercent = 0.1 (the program's value) and 0.25
PenaltyConfigs ==
    {Config(AllAngles, p, 2, 2 * MaxEvalHalf, DefaultCoolingRate) : p \in {10, 25}}

InitPenalty ==
    /\ cfg \in PenaltyConfigs
    /\ full_seq \in SeqsOfLen(AllAngles, {2 * n : n \in 1..MaxEvalHalf})
    /\ pc = "penalty"
    /\ pen = 0
    /\ n_iterations = 0 /\ it = 0 /\ T = 0
    /\ current_half = <<>> /\ current_obj = NoObj
    /\ best_half = <<>> /\ best_obj = NoObj
    /\ candidate_half = <<>> /\ candidate_obj = NoObj
    /\ move = "none"
    /\ result = NoResult

PenaltyCall ==
    /\ pc = "penalty"
    /\ pen' = penalty(full_seq, cfg.minPercent)
    /\ pc' = "penalty_done"
    /\ UNCHANGED <<cfg, n_iterations, it, T, current_half, current_obj, best_half,
                   best_obj, candidate_half, candidate_obj, move, full_seq, result>>

NextPenalty == PenaltyCall

SpecPenalty == InitPenalty /\ [][NextPenalty]_vars

\* ------------------------------------------------------------------------
\* Properties
\* ------------------------------------------------------------------------
\* the search state has been initialised
Started == pc \in {"loop", "done"} \/ (pc = "error" /\ move # "none")

InRange(h) ==
    /\ min_half <= Len(h) /\ Len(h) <= max_half
    /\ \A i \in 1..Len(h) : h[i] \in allowed_angles

\* s reads the same in both directions
Palindrome(s) == \A i \in 1..Len(s) : s[i] = s[Len(s) + 1 - i]

\* C1: in every state of simulated_annealing, the lengths of current_half and
\* best_half lie in [min_half, max_half] and their angles are allowed angles;
\* the candidate of a delete is never shorter than min_half and the candidate
\* of an insert never longer than max_half (no delete at min_half, no insert
\* at max_half).
C1_HalfWithinBounds ==
    Started =>
        /\ InRange(current_half)
        /\ InRange(best_half)
        /\ move # "none" => InRange(candidate_half)

\* a delete was accepted and brought the half-sequence down to min_half
C1_Witness ==
    /\ cfg = GeneralConfig
    /\ move = "delete"
    /\ current_half = candidate_half
    /\ Len(current_half) = min_half

\* C2: best_obj never increases from one iteration to the next.
C2_BestNonIncreasing ==
    [][pc = "loop" /\ it' = it + 1 => ~ObjLess(best_obj, best_obj')]_vars

\* the first iteration's candidate was accepted and became the new best
C2_Witness ==
    /\ cfg = GeneralConfig
    /\ it = 1
    /\ best_half = candidate_half

\* C3: with allowed_angles = {0}, minPercent = 0 and 4 plies, a run with a
\* positive iteration budget never fails, and it returns [0, 0, 0, 0] with
\* zero penalty and a finite objective.
C3_SingleAngleRunCompletes ==
    (cfg = SingleAngleConfig /\ n_iterations > 0) =>
        /\ pc # "error"
        /\ pc = "done" =>
              /\ result[1] = <<0, 0, 0, 0>>
              /\ result[2].pen = 0
              /\ ~result[2].defl.big

\* the fatal configurations among Configs (the material constants are the
\* fixed positive module constants, so denom > 0 in every configuration)
C4_Fatal(c) ==
    \/ c.min_full_plies > c.max_full_plies
    \/ c.allowed_angles = {}
    \/ ~(0 < c.cooling_rate /\ c.cooling_rate < 1000)

\* C4: a fatal configuration aborts before the search starts: no search
\* state is built, no iteration runs and nothing is returned.
C4_FatalConfigAborts ==
    C4_Fatal(cfg) => pc \in {"start", "error"} /\ it = 0 /\ result = NoResult

\* the violations penalty counts, stated on the sequence itself
C5_Required == (Len(full_seq) * cfg.minPercent) \div 100
C5_Balanced == Count(full_seq, 45) = Count(full_seq, -45)
C5_CoverageMet ==
    /\ Count(full_seq, 0) >= C5_Required
    /\ Count(full_seq, 90) >= C5_Required
    /\ Count(full_seq, 45) + Count(full_seq, -45) >= C5_Required

C5_Abs(x) == IF x < 0 THEN -x ELSE x
C5_Short(s, a) ==
    LET required == (Len(s) * cfg.minPercent) \div 100
    IN  IF Count(s, a) < required THEN required - Count(s, a) ELSE 0
C5_Short45(s) ==
    LET required == (Len(s) * cfg.minPercent) \div 100
        n == Count(s, 45) + Count(s, -45)
    IN  IF n < required THEN required - n ELSE 0

\* every violation of s is at most the same violation of r
C5_NoLarger(s, r) ==
    /\ Palindrome(r) => Palindrome(s)
    /\ C5_Abs(Count(s, 45) - Count(s, -45)) <= C5_Abs(Count(r, 45) - Count(r, -45))
    /\ C5_Short(s, 0) <= C5_Short(r, 0)
    /\ C5_Short(s, 90) <= C5_Short(r, 90)
    /\ C5_Short45(s) <= C5_Short45(r)

\* the sequences that differ from s in one ply
C5_OnePlyChanges(s) ==
    {[s EXCEPT ![i] = a] : i \in 1..Len(s), a \in AllAngles}

\* C5 as stated: penalty is 0 iff the sequence is balanced and the three
\* coverage minimums are met.
C5_ZeroIffBalancedAndCovered ==
    pc = "penalty_done" => (pen = 0 <=> (C5_Balanced /\ C5_CoverageMet))

\* C5 as amended: for a full sequence of even length, penalty is 0 iff the
\* sequence is symmetric, balanced and meets the three coverage minimums;
\* otherwise it is strictly positive; and a sequence one ply away whose
\* violations (asymmetry, balance difference, each shortfall) are all at
\* least as large has a penalty at least as large.
C5_ZeroIffSymmetricBalancedAndCovered ==
    pc = "penalty_done" =>
        /\ pen = 0 <=> (Palindrome(full_seq) /\ C5_Balanced /\ C5_CoverageMet)
        /\ pen >= 0
        /\ \A r \in C5_OnePlyChanges(full_seq) :
              C5_NoLarger(full_seq, r) => penalty(r, cfg.minPercent) >= pen

\* penalty returned a positive value for a balanced, covered, asymmetric sequence
C5_Witness ==
    /\ pc = "penalty_done"
    /\ C5_Balanced /\ C5_CoverageMet
    /\ ~Palindrome(full_seq)
    /\ pen > 0

\* the half-sequence of the last evaluation
LastEvaluated == IF move = "none" THEN current_half ELSE candidate_half
LastObj == IF move = "none" THEN current_obj ELSE candidate_obj

\* C6: the full sequence of every evaluation is the half-sequence followed by
\* its reverse: twice as long, a palindrome, and penalty adds no symmetry term
\* for it; the returned sequence is the mirrored best half-sequence.
C6_FullIsMirroredHalf ==
    /\ pc \in {"loop", "done"} =>
          /\ Len(full_seq) = 2 * Len(LastEvaluated)
          /\ SubSeq(full_seq, 1, Len(LastEvaluated)) = LastEvaluated
          /\ Palindrome(full_seq)
          /\ SymmetryTerm(full_seq) = 0
          /\ LastObj.pen = BalanceTerm(full_seq) + CoverageTerm(full_seq, cfg.minPercent)
    /\ pc = "done" =>
          /\ Len(result[1]) = 2 * Len(best_half)
          /\ SubSeq(result[1], 1, Len(best_half)) = best_half
          /\ Palindrome(result[1])
          /\ SymmetryTerm(result[1]) = 0

\* a candidate holding different angles was evaluated
C6_Witness ==
    /\ pc = "loop"
    /\ move = "insert"
    /\ Len(full_seq) = 4
    /\ full_seq[1] # full_seq[2]

\* penalty of the mirrored half-sequence h under the run's configuration
HalfPenalty(h) == penalty(Mirror(h), cfg.minPercent)

\* C7 as stated: with minPercent = 0.25 and 8 plies, a run with a positive
\* iteration budget ends with a best half-sequence of zero penalty.
C7_RunReachesZeroPenalty ==
    (cfg = EightPlyConfig /\ n_iterations > 0 /\ pc = "done") =>
        penalty(result[1], cfg.minPercent) = 0

\* the candidates a change move can build from h
C7_Changes(h) ==
    UNION {{[h EXCEPT ![i] = a] : a \in allowed_angles \ {h[i]}} : i \in 1..Len(h)}

\* at most k change moves, each of which the acceptance test can accept,
\* lead from h to a half-sequence of zero penalty
RECURSIVE C7_CanReachZero(_, _)
C7_CanReachZero(h, k) ==
    \/ HalfPenalty(h) = 0
    \/ /\ k > 0
       /\ \E c \in C7_Changes(h) :
            /\ MayAccept(objective(c, cfg.minPercent), objective(h, cfg.minPercent))
            /\ C7_CanReachZero(c, k - 1)

\* C7 as amended: with minPercent = 0.25 and 8 plies, the zero-penalty
\* half-sequences are exactly those holding one ply each of 0, 90, +45, -45;
\* from every initial half-sequence three changes that the acceptance test
\* can accept lead to one of them; and the penalty of best_half never
\* increases during a run (a run that reaches zero penalty keeps it).  A run
\* need not reach zero penalty.
C7_ZeroPenaltyKept ==
    /\ [](cfg = EightPlyConfig /\ Started =>
            (HalfPenalty(best_half) = 0
                <=> \A a \in AllAngles : Count(best_half, a) = 1))
    /\ [](cfg = EightPlyConfig /\ pc = "loop" /\ it = 0 =>
            C7_CanReachZero(current_half, 3))
    /\ [][cfg = EightPlyConfig /\ pc = "loop" /\ it' = it + 1 =>
            HalfPenalty(best_half') <= HalfPenalty(best_half)]_vars

\* the first iteration took the best half-sequence to zero penalty
C7_Witness ==
    /\ cfg = EightPlyConfig
    /\ it = 1
    /\ best_half = candidate_half
    /\ HalfPenalty(best_half) = 0

\* cand is cur with one ply changed, inserted or deleted
C8_OneMove(mv, cur, cand) ==
    \/ /\ mv = "change"
       /\ Len(cand) = Len(cur)
       /\ Cardinality({i \in 1..Len(cur) : cand[i] # cur[i]}) = 1
    \/ /\ mv = "insert"
       /\ Len(cand) = Len(cur) + 1
       /\ \E i \in 1..Len(cand) : RemoveAt(cand, i) = cur
    \/ /\ mv = "delete"
       /\ Len(cand) = Len(cur) - 1
       /\ \E i \in 1..Len(cur) : RemoveAt(cur, i) = cand

\* C8: an iteration builds one candidate by one move on a copy of
\* current_half and either accepts it (current becomes the candidate and its
\* objective) or rejects it (current and best are unchanged); a candidate
\* with delta < 0 is accepted.
C8_AcceptOrReject ==
    [][it' = it + 1 =>
        /\ C8_OneMove(move', current_half, candidate_half')
        /\ \/ current_half' = candidate_half' /\ current_obj' = candidate_obj'
           \/ UNCHANGED <<current_half, current_obj, best_half, best_obj>>
        /\ ObjLess(candidate_obj', current_obj) =>
              current_half' = candidate_half' /\ current_obj' = candidate_obj'
      ]_vars

\* the first iteration accepted a candidate with delta > 0: current is the
\* candidate and is strictly worse than the initial half-sequence, still best
C8_Witness ==
    /\ it = 1
    /\ current_half = candidate_half
    /\ ObjLess(best_obj, current_obj)

\* C9: the cached objectives are those of the sequences they describe,
\* best_obj <= current_obj, and best_half is replaced only by a just-accepted
\* candidate whose objective is strictly below best_obj.
C9_CachedObjectives ==
    /\ [](pc \in {"loop", "done"} =>
            /\ current_obj = objective(current_half, cfg.minPercent)
            /\ best_obj = objective(best_half, cfg.minPercent)
            /\ ~ObjLess(current_obj, best_obj))
    /\ [][pc = "loop" /\ best_half' # best_half =>
            /\ ObjLess(current_obj', best_obj)
            /\ best_half' = current_half'
            /\ current_half' = candidate_half'
            /\ best_obj' = current_obj']_vars

\* an accepted candidate left best behind: current is strictly worse than best
C9_Witness ==
    /\ pc = "loop"
    /\ it > 0
    /\ current_half = candidate_half
    /\ best_half # current_half
    /\ ObjLess(best_obj, current_obj)

\* C10: best_obj starts as the objective of the initial half-sequence, after
\* every iteration it is the smaller of its previous value and the objective
\* of the candidate just evaluated (accepted or not), and the run returns
\* best_half + reverse(best_half) with best_obj.
C10_BestIsMinimum ==
    /\ [](pc = "loop" /\ it = 0 =>
            best_obj = objective(current_half, cfg.minPercent))
    /\ [][it' = it + 1 =>
            /\ candidate_obj' = objective(candidate_half', cfg.minPercent)
            /\ best_obj' = IF ObjLess(candidate_obj', best_obj)
                              THEN candidate_obj' ELSE best_obj]_vars
    /\ [](pc = "done" =>
            /\ result[1] = best_half \o Reverse(best_half)
            /\ result[2] = best_obj)

\* a run returned after a candidate no better than best was rejected
C10_Witness ==
    /\ pc = "done"
    /\ it > 0
    /\ current_half # candidate_half
    /\ ObjLess(best_obj, candidate_obj)
    /\ best_half # current_half

=============================================================================
